---- MODULE Spec2Model ----
(***************************************************************************)
(* Model of the OpenXR / SteamVR binding generators                        *)
(*   src/xrt/state_trackers/oxr/oxr_bindings/oxr_bindings.py               *)
(*   src/xrt/state_trackers/steamvr_drv/steamvr_bindings/ovrd_bindings.py  *)
(*                                                                         *)
(* Generated C text is modelled statement by statement: every emitted     *)
(* group of lines is a record (kind k plus its operands), a guarded switch *)
(* being one record that keeps its version check, its #if condition, its   *)
(* exts-> check, its cases and its closing lines apart.  The generated     *)
(* functions are given meaning by a small C interpreter (Run / RunExt).    *)
(* Strings are sequences of characters 1..2 ordered lexicographically,     *)
(* profile names and extension names are numbers standing for their rank   *)
(* in the string order, None is 0.                                         *)
(***************************************************************************)
EXTENDS Integers, Sequences, FiniteSets, TLC

VARIABLES b, pc, pidx, out, driver, argv, outIdx, files

vars == <<b, pc, pidx, out, driver, argv, outIdx, files>>

None == 0

\* ---------------------------------------------------------------- bounds
\* promoted versions range over 1.1 .. 1.MaxMinor
MaxMinor == 1
\* a profile of the emitter input carries at most MaxComponents components
MaxComponents == 2

ProfileNames == {1, 2, 3}
Extensions == {1, 2}

\* ---------------------------------------------------------------- strings
RECURSIVE SeqLess(_, _)
SeqLess(s, t) ==
    IF t = <<>> THEN FALSE
    ELSE IF s = <<>> THEN TRUE
    ELSE IF Head(s) # Head(t) THEN Head(s) < Head(t)
    ELSE SeqLess(Tail(s), Tail(t))

RECURSIVE SetToSeq(_)
SetToSeq(S) ==
    IF S = {} THEN <<>>
    ELSE LET x == CHOOSE y \in S : TRUE IN <<x>> \o SetToSeq(S \ {x})

IntLess(x, y) == x < y

Range(s) == {s[i] : i \in 1..Len(s)}

RECURSIVE Flatten(_)
Flatten(ss) == IF Len(ss) = 0 THEN <<>> ELSE Head(ss) \o Flatten(Tail(ss))

\* ---------------------------------------------------------------- versions
Version(major, minor) == [major |-> major, minor |-> minor]

NoVersion == Version(0, 0)

is_valid_version(v) == v.major > 0 \/ v.minor > 0

\* openxr_version >= XR_MAKE_VERSION(major, minor, 0)
VersionGE(v, w) == v.major > w.major \/ (v.major = w.major /\ v.minor >= w.minor)

VersionMax(v, w) == IF VersionGE(v, w) THEN v ELSE w

\* ---------------------------------------------------------------- feature sets
FeatureSet(exts, version) ==
    [required_extensions |-> exts, required_version |-> version]

as_tuple(fs) ==
    <<fs.required_version.major, fs.required_version.minor>>
        \o SortSeq(SetToSeq(fs.required_extensions), IntLess)

FeatureSetLess(x, y) == SeqLess(as_tuple(x), as_tuple(y))

\* two feature sets that cannot hold together: extension requirements that
\* are both present and disjoint, or minimum versions of different majors
Incompatible(x, y) ==
    \/ /\ x.required_extensions # {}
       /\ y.required_extensions # {}
       /\ x.required_extensions \cap y.required_extensions = {}
    \/ /\ is_valid_version(x.required_version)
       /\ is_valid_version(y.required_version)
       /\ x.required_version.major # y.required_version.major

FeatureSetIntersection(x, y) ==
    FeatureSet(x.required_extensions \cup y.required_extensions,
               VersionMax(x.required_version, y.required_version))

\* Availability.intersection: pairwise, never-satisfied results dropped
intersection(av, other) ==
    {FeatureSetIntersection(x, y) :
        <<x, y>> \in {pr \in av \X other : ~Incompatible(pr[1], pr[2])}}

\* Profile.availability()
availability(profile) ==
    LET byExt == IF profile.extension_name # None
                 THEN {FeatureSet({profile.extension_name}, NoVersion)} ELSE {}
        byVer == IF is_valid_version(profile.openxr_version_promoted)
                 THEN {FeatureSet({}, profile.openxr_version_promoted)} ELSE {}
    IN IF byExt \cup byVer = {} THEN {FeatureSet({}, NoVersion)}
       ELSE byExt \cup byVer

\* ---------------------------------------------------------------- emitted text
Blank ==
    [k |-> "", n |-> 0, t |-> "", v |-> NoVersion, ifdef |-> {}, e |-> {},
     cases |-> <<>>, closing |-> <<>>, sup |-> "", en |-> "",
     ints |-> <<>>, val |-> "", sub |-> "", steamvr |-> <<>>, paths |-> <<>>]

Ln(k) == [Blank EXCEPT !.k = k]

\* ---------------------------------------------------------------- data model
\* dict of lists: length -> list of the strings of that length
ByLength(paths) ==
    [n \in {Len(paths[i]) : i \in 1..Len(paths)} |->
        SelectSeq(paths, LAMBDA p : Len(p) = n)]

ProfileByName(name) ==
    b.profiles[CHOOSE i \in 1..Len(b.profiles) : b.profiles[i].name = name]

\* ---------------------------------------------------------------- verify functions
\* "case <length>:", the if / else if chain over the sorted strings, "break;"
\* only the first string of a bucket compared
SwitchCase_first_only(dict_of_lists, length) ==
    [length |-> length,
     paths |-> SubSeq(SortSeq(dict_of_lists[length], SeqLess), 1, 1)]

SwitchCase(dict_of_lists, length) ==
    [length |-> length, paths |-> SortSeq(dict_of_lists[length], SeqLess)]

\* "switch (length) {" ... "default: break;" "}"
get_verify_switch_body(dict_of_lists, tab_char) ==
    LET lengths == SortSeq(SetToSeq(DOMAIN dict_of_lists), IntLess)
    IN [i \in 1..Len(lengths) |-> SwitchCase(dict_of_lists, lengths[i])]

\* one iteration of the loop over the sorted feature sets
FeatureSetBlock(dict_of_lists, feature_set) ==
    LET requires_version == is_valid_version(feature_set.required_version)
        requires_extensions == feature_set.required_extensions # {}
        tab_char == (IF requires_version THEN 1 ELSE 0)
                        + (IF requires_extensions THEN 1 ELSE 0)
        closing ==
            (IF requires_version THEN <<"}">> ELSE <<>>)
            \o (IF requires_extensions THEN <<"}#endif">> ELSE <<>>)
    IN [Ln("block") EXCEPT
           !.v = IF requires_version THEN feature_set.required_version ELSE NoVersion,
           !.ifdef = feature_set.required_extensions,
           !.e = feature_set.required_extensions,
           !.n = tab_char,
           !.cases = get_verify_switch_body(dict_of_lists, tab_char),
           !.closing = [i \in 1..Len(closing) |-> closing[Len(closing) + 1 - i]]]

\* the extension guards of an availability merged over all its feature sets
get_verify_func_switch_merged(dict_of_lists, profile_name, av) ==
    IF DOMAIN dict_of_lists = {} THEN <<>>
    ELSE LET feature_sets == SortSeq(SetToSeq(av), FeatureSetLess)
             all == UNION {fs.required_extensions : fs \in av}
         IN <<[Ln("comment") EXCEPT !.n = profile_name]>>
            \o [i \in 1..Len(feature_sets) |->
                  FeatureSetBlock(dict_of_lists,
                      FeatureSet(all, feature_sets[i].required_version))]

\* an availability without feature sets taken for "no requirement"
get_verify_func_switch_empty_unguarded(dict_of_lists, profile_name, av) ==
    IF DOMAIN dict_of_lists = {} THEN <<>>
    ELSE LET feature_sets ==
                 IF av = {} THEN <<FeatureSet({}, NoVersion)>>
                 ELSE SortSeq(SetToSeq(av), FeatureSetLess)
         IN <<[Ln("comment") EXCEPT !.n = profile_name]>>
            \o [i \in 1..Len(feature_sets) |->
                   FeatureSetBlock(dict_of_lists, feature_sets[i])]

get_verify_func_switch(dict_of_lists, profile_name, av) ==
    IF DOMAIN dict_of_lists = {} THEN <<>>
    ELSE LET feature_sets == SortSeq(SetToSeq(av), FeatureSetLess)
         IN <<[Ln("comment") EXCEPT !.n = profile_name]>>
            \o [i \in 1..Len(feature_sets) |->
                   FeatureSetBlock(dict_of_lists, feature_sets[i])]

\* the ancestor's own availability left out of the accumulated guard
RECURSIVE get_verify_func_body_unaccumulated(_, _, _)
get_verify_func_body_unaccumulated(profile, dict_name, av) ==
    get_verify_func_switch(profile[dict_name], profile.name, av)
    \o LET pps == SortSeq(profile.parent_profiles, IntLess)
       IN Flatten([i \in 1..Len(pps) |->
            get_verify_func_body_unaccumulated(ProfileByName(pps[i]), dict_name, av)])

\* the availability narrowed by one parent carried over to the next parent
RECURSIVE Carried(_, _, _)
Carried(av, pps, i) ==
    IF i = 0 THEN av
    ELSE intersection(Carried(av, pps, i - 1), availability(ProfileByName(pps[i])))

RECURSIVE get_verify_func_body_carried(_, _, _)
get_verify_func_body_carried(profile, dict_name, av) ==
    get_verify_func_switch(profile[dict_name], profile.name, av)
    \o LET pps == SortSeq(profile.parent_profiles, IntLess)
       IN Flatten([i \in 1..Len(pps) |->
            get_verify_func_body_carried(ProfileByName(pps[i]), dict_name,
                                         Carried(av, pps, i))])

\* parents visited in the order they are stored in
RECURSIVE get_verify_func_body_stored_order(_, _, _)
get_verify_func_body_stored_order(profile, dict_name, av) ==
    get_verify_func_switch(profile[dict_name], profile.name, av)
    \o LET pps == profile.parent_profiles
       IN Flatten([i \in 1..Len(pps) |->
            get_verify_func_body_stored_order(ProfileByName(pps[i]), dict_name,
                intersection(av, availability(ProfileByName(pps[i]))))])

RECURSIVE get_verify_func_body(_, _, _)
get_verify_func_body(profile, dict_name, av) ==
    get_verify_func_switch(profile[dict_name], profile.name, av)
    \o LET pps == SortSeq(profile.parent_profiles, IntLess)
       IN Flatten([i \in 1..Len(pps) |->
            get_verify_func_body(ProfileByName(pps[i]), dict_name,
                intersection(av, availability(ProfileByName(pps[i]))))])

get_verify_func(profile, dict_name, suffix) ==
    <<[Ln("func_begin") EXCEPT !.n = profile.validation_func_name, !.t = suffix]>>
    \o get_verify_func_body(profile, dict_name, availability(profile))
    \o <<Ln("return_false"), Ln("func_end")>>

get_verify_functions(profile) ==
    LET is_promoted == is_valid_version(profile.openxr_version_promoted)
    IN get_verify_func(profile, "subpaths_by_length", "_subpath")
       \o get_verify_func(profile, "dpad_paths_by_length", "_dpad_path")
       \o get_verify_func(profile, "dpad_emulators_by_length", "_dpad_emulator")
       \o <<[Ln("func_begin") EXCEPT
                !.n = profile.validation_func_name, !.t = "_ext"]>>
       \o (IF is_promoted
           THEN <<[Ln("promoted") EXCEPT
                      !.v = profile.openxr_version_promoted,
                      !.sup = "true", !.en = "true"]>>
           ELSE <<>>)
       \o (IF profile.extension_name # None
           THEN <<[Ln("#ifdef") EXCEPT !.ifdef = {profile.extension_name}],
                  [Ln("set") EXCEPT !.sup = "true", !.en = "extensions->",
                                    !.e = {profile.extension_name}],
                  Ln("#else"),
                  [Ln("set") EXCEPT !.sup = "false", !.en = "false"],
                  [Ln("#endif") EXCEPT !.ifdef = {profile.extension_name}],
                  Ln("func_end")>>
           ELSE <<[Ln("set") EXCEPT !.sup = "true", !.en = "true"],
                  Ln("func_end")>>)

\* ---------------------------------------------------------------- components
is_output(component) == component.component_name = "haptic"

is_input(component) == ~is_output(component)

has_dpad_emulation(component) == component.dpad_emulation.present

\* "activate" in component.dpad_emulation
names_activate(component) == component.dpad_emulation.activate # ""

\* f'{value}' of a monado_binding
Fmt(x) == IF x = None THEN "None" ELSE ToString(x)

\* the first component of the list with that name, subaction path and
\* identifier json path, as a one-element list; the empty list stands for None
find_component_in_list_by_name(name, component_list, subaction_path, identifier_json_path) ==
    LET hits == {i \in 1..Len(component_list) :
                    /\ component_list[i].component_name = name
                    /\ component_list[i].subaction_path = subaction_path
                    /\ component_list[i].identifier_json_path = identifier_json_path}
    IN IF hits = {} THEN <<>>
       ELSE <<component_list[CHOOSE i \in hits : \A j \in hits : i <= j]>>

Field(name, value) == [Ln("field") EXCEPT !.t = name, !.val = value]

SteamvrSuffixed == {"click", "touch", "force", "value", "proximity"}

\* ---------------------------------------------------------------- generate_bindings_c (OpenXR)
\* .input / .dpad_activate / .output of one component; error: the lookup of
\* the activate component came back empty and its monado_binding was read
\* .input set for outputs as well
oxr_binding_fields_input_always(profile, component) ==
    IF component.monado_binding = None THEN [lines |-> <<>>, error |-> FALSE]
    ELSE LET monado_binding == component.monado_binding
             resolves == has_dpad_emulation(component) /\ names_activate(component)
             activate_component ==
                 find_component_in_list_by_name(
                     component.dpad_emulation.activate, profile.components,
                     component.subaction_path, component.identifier_json_path)
         IN IF resolves /\ activate_component = <<>>
            THEN [lines |-> <<>>, error |-> TRUE]
            ELSE [lines |->
                    <<Field("input", Fmt(monado_binding)),
                      Field("dpad_activate",
                            IF resolves THEN Fmt(activate_component[1].monado_binding)
                            ELSE "0"),
                      Field("output",
                            IF is_output(component) THEN Fmt(monado_binding) ELSE "0")>>,
                  error |-> FALSE]

oxr_binding_fields(profile, component) ==
    IF component.monado_binding = None THEN [lines |-> <<>>, error |-> FALSE]
    ELSE LET monado_binding == component.monado_binding
             input_value == IF is_input(component) THEN Fmt(monado_binding) ELSE "0"
             resolves == has_dpad_emulation(component) /\ names_activate(component)
             activate_component ==
                 find_component_in_list_by_name(
                     component.dpad_emulation.activate, profile.components,
                     component.subaction_path, component.identifier_json_path)
             output_value == IF is_output(component) THEN Fmt(monado_binding) ELSE "0"
         IN IF resolves /\ activate_component = <<>>
            THEN [lines |-> <<>>, error |-> TRUE]
            ELSE [lines |->
                    <<Field("input", input_value),
                      Field("dpad_activate",
                            IF resolves THEN Fmt(activate_component[1].monado_binding)
                            ELSE "0"),
                      Field("output", output_value)>>,
                  error |-> FALSE]

oxr_binding_template(profile, idx, component) ==
    LET steamvr_path ==
            component.steamvr_path
                \o (IF component.component_name \in SteamvrSuffixed
                    THEN <<"/", component.component_name>> ELSE <<>>)
        fields == oxr_binding_fields(profile, component)
    IN [lines |->
            <<[Ln("binding_template") EXCEPT
                  !.n = idx,
                  !.sub = component.subaction_path,
                  !.steamvr = steamvr_path,
                  !.t = component.subpath_localized_name,
                  !.paths = component.paths \o <<<<"NULL">>>>]>>
            \o fields.lines
            \o (IF fields.error THEN <<>>
                ELSE <<[Ln("/binding_template") EXCEPT !.n = idx]>>),
        error |-> fields.error]

\* the loop over enumerate(profile.components), left at the first error
RECURSIVE oxr_bindings_from(_, _)
oxr_bindings_from(profile, i) ==
    IF i > Len(profile.components) THEN [lines |-> <<>>, error |-> FALSE]
    ELSE LET one == oxr_binding_template(profile, i - 1, profile.components[i])
         IN IF one.error THEN one
            ELSE LET rest == oxr_bindings_from(profile, i + 1)
                 IN [lines |-> one.lines \o rest.lines, error |-> rest.error]

oxr_dpads(profile) ==
    LET dpads == SelectSeq(profile.identifiers, LAMBDA identifier : identifier.dpad.present)
        dpad_count == Len(dpads)
    IN <<[Ln("dpad_count") EXCEPT !.n = dpad_count]>>
       \o (IF Len(dpads) = 0 THEN <<[Ln("dpads") EXCEPT !.val = "NULL"]>>
           ELSE <<Ln("dpads")>>
                \o [i \in 1..Len(dpads) |->
                      [Ln("dpad_emulation") EXCEPT
                          !.sub = dpads[i].subaction_path,
                          !.paths = dpads[i].dpad.paths,
                          !.val = Fmt(dpads[i].dpad.position_component.monado_binding),
                          !.t = IF dpads[i].dpad.activate_component # <<>>
                                THEN Fmt(dpads[i].dpad.activate_component[1].monado_binding)
                                ELSE "0"]]
                \o <<Ln("/dpads")>>)

\* one iteration of the loop over b.profiles
oxr_profile_template(profile) ==
    LET fname == profile.name
        controller_type == profile.name
        binding_count == Len(profile.components)
        bindings == oxr_bindings_from(profile, 1)
    IN [lines |->
            <<[Ln("profile_template") EXCEPT
                  !.ints = <<profile.monado_device_enum, profile.name,
                             profile.localized_name, fname, controller_type,
                             binding_count>>]>>
            \o bindings.lines
            \o (IF bindings.error THEN <<>>
                ELSE <<Ln("/bindings")>>
                     \o oxr_dpads(profile)
                     \o <<[Ln("promoted_version") EXCEPT
                              !.v = profile.openxr_version_promoted],
                          [Ln("fn") EXCEPT !.t = "_subpath", !.n = profile.validation_func_name],
                          [Ln("fn") EXCEPT !.t = "_dpad_path", !.n = profile.validation_func_name],
                          [Ln("fn") EXCEPT !.t = "_dpad_emulator", !.n = profile.validation_func_name],
                          [Ln("fn") EXCEPT !.t = "_ext", !.n = profile.validation_func_name],
                          [Ln("extension_name") EXCEPT
                              !.val = IF profile.extension_name = None THEN "NULL"
                                      ELSE ToString(profile.extension_name)],
                          Ln("/profile_template")>>),
        error |-> bindings.error]

\* the first wl(): banner, includes, every profile's verify functions, array head
oxr_preamble ==
    <<[Ln("header") EXCEPT !.t = "oxr"]>>
    \o Flatten([i \in 1..Len(b.profiles) |-> get_verify_functions(b.profiles[i])])
    \o <<[Ln("profile_templates") EXCEPT !.n = Len(b.profiles)]>>

\* ---------------------------------------------------------------- ovrd_generate_bindings_c (SteamVR)
\* .dpad_activate written from the component's own binding
ovrd_binding_fields_own_binding(profile, component) ==
    IF component.monado_binding = None THEN [lines |-> <<>>, error |-> FALSE]
    ELSE LET monado_binding == component.monado_binding
             resolves == has_dpad_emulation(component) /\ names_activate(component)
             activate_component ==
                 find_component_in_list_by_name(
                     component.dpad_emulation.activate, profile.components,
                     component.subaction_path, component.identifier_json_path)
             input ==
                 <<Field("input", IF is_input(component) THEN Fmt(monado_binding) ELSE "0")>>
         IN IF resolves /\ activate_component = <<>>
            THEN [lines |-> input, error |-> TRUE]
            ELSE [lines |->
                    input
                    \o <<Field("dpad_activate",
                               IF resolves THEN Fmt(monado_binding) ELSE "0")>>
                    \o <<Field("output",
                               IF is_output(component) THEN Fmt(monado_binding) ELSE "0")>>,
                  error |-> FALSE]

ovrd_binding_fields(profile, component) ==
    IF component.monado_binding = None THEN [lines |-> <<>>, error |-> FALSE]
    ELSE LET monado_binding == component.monado_binding
             input ==
                 <<Field("input", IF is_input(component) THEN Fmt(monado_binding) ELSE "0")>>
             resolves == has_dpad_emulation(component) /\ names_activate(component)
             activate_component ==
                 find_component_in_list_by_name(
                     component.dpad_emulation.activate, profile.components,
                     component.subaction_path, component.identifier_json_path)
             output ==
                 <<Field("output", IF is_output(component) THEN Fmt(monado_binding) ELSE "0")>>
         IN IF resolves /\ activate_component = <<>>
            THEN [lines |-> input, error |-> TRUE]
            ELSE [lines |->
                    input
                    \o <<Field("dpad_activate",
                               IF resolves THEN Fmt(activate_component[1].monado_binding)
                               ELSE "0")>>
                    \o output,
                  error |-> FALSE]

ovrd_binding_template(profile, idx, component) ==
    LET steamvr_path ==
            component.steamvr_path
                \o (IF component.component_name \in SteamvrSuffixed
                    THEN <<"/", component.component_name>> ELSE <<>>)
        fields == ovrd_binding_fields(profile, component)
    IN [lines |->
            <<[Ln("binding_template") EXCEPT
                  !.n = idx,
                  !.sub = component.subaction_path,
                  !.steamvr = steamvr_path,
                  !.t = component.subpath_localized_name,
                  !.paths = component.paths \o <<<<"NULL">>>>]>>
            \o fields.lines
            \o (IF fields.error THEN <<>>
                ELSE <<[Ln("/binding_template") EXCEPT !.n = idx]>>),
        error |-> fields.error]

RECURSIVE ovrd_bindings_from(_, _)
ovrd_bindings_from(profile, i) ==
    IF i > Len(profile.components) THEN [lines |-> <<>>, error |-> FALSE]
    ELSE LET one == ovrd_binding_template(profile, i - 1, profile.components[i])
         IN IF one.error THEN one
            ELSE LET rest == ovrd_bindings_from(profile, i + 1)
                 IN [lines |-> one.lines \o rest.lines, error |-> rest.error]

ovrd_dpads(profile) ==
    LET dpads == SelectSeq(profile.identifiers, LAMBDA identifier : identifier.dpad.present)
        dpad_count == Len(dpads)
    IN <<[Ln("dpad_count") EXCEPT !.n = dpad_count]>>
       \o (IF Len(dpads) = 0 THEN <<[Ln("dpads") EXCEPT !.val = "NULL"]>>
           ELSE <<Ln("dpads")>>
                \o [i \in 1..Len(dpads) |->
                      [Ln("dpad_emulation") EXCEPT
                          !.sub = dpads[i].subaction_path,
                          !.paths = dpads[i].dpad.paths,
                          !.val = Fmt(dpads[i].dpad.position_component.monado_binding),
                          !.t = IF dpads[i].dpad.activate_component # <<>>
                                THEN Fmt(dpads[i].dpad.activate_component[1].monado_binding)
                                ELSE "0"]]
                \o <<Ln("/dpads")>>)

ovrd_profile_template(profile) ==
    LET fname == profile.name
        controller_type == profile.name
        binding_count == Len(profile.components)
        bindings == ovrd_bindings_from(profile, 1)
    IN [lines |->
            <<[Ln("profile_template") EXCEPT
                  !.ints = <<profile.monado_device_enum, profile.name,
                             profile.localized_name, fname, controller_type,
                             binding_count>>]>>
            \o bindings.lines
            \o (IF bindings.error THEN <<>>
                ELSE <<Ln("/bindings")>>
                     \o ovrd_dpads(profile)
                     \o <<Ln("/profile_template")>>),
        error |-> bindings.error]

ovrd_preamble ==
    <<[Ln("header") EXCEPT !.t = "ovrd"],
      [Ln("profile_templates") EXCEPT !.n = Len(b.profiles)]>>

\* ---------------------------------------------------------------- meaning of the generated C
\* A build is the set `defined' of OXR_HAVE_<ext> macros; struct
\* oxr_extension_status has a member only for the extensions of the build.
BlockCompiledIn(l, defined) == l.ifdef \subseteq defined

Compiles(fn, defined) ==
    \A i \in 1..Len(fn) :
        (fn[i].k = "block" /\ BlockCompiledIn(fn[i], defined)) => fn[i].e \subseteq defined

RECURSIVE ExtCompilesFrom(_, _, _, _)
ExtCompilesFrom(fn, i, defined, keep) ==
    IF i > Len(fn) THEN TRUE
    ELSE LET l == fn[i]
         IN CASE l.k = "#ifdef" -> ExtCompilesFrom(fn, i + 1, defined, l.ifdef \subseteq defined)
              [] l.k = "#else" -> ExtCompilesFrom(fn, i + 1, defined, ~keep)
              [] l.k = "#endif" -> ExtCompilesFrom(fn, i + 1, defined, TRUE)
              [] OTHER ->
                    /\ (keep /\ l.en = "extensions->") => l.e \subseteq defined
                    /\ ExtCompilesFrom(fn, i + 1, defined, keep)

ExtCompiles(fn, defined) == ExtCompilesFrom(fn, 1, defined, TRUE)

\* the guards of a block hold at run time
BlockEntered(l, exts, openxr_version) ==
    /\ is_valid_version(l.v) => VersionGE(openxr_version, l.v)
    /\ l.e \subseteq exts

\* switch (length) reaches a strcmp(str, ...) == 0 that returns true
SwitchReturnsTrue(cases, str, length) ==
    \E c \in 1..Len(cases) :
        /\ cases[c].length = length
        /\ \A d \in 1..(c - 1) : cases[d].length # length
        /\ str \in Range(cases[c].paths)

\* execution of one generated matcher on (exts, openxr_version, str, length)
RECURSIVE Run(_, _, _, _, _, _, _)
Run(fn, i, defined, exts, openxr_version, str, length) ==
    IF i > Len(fn) THEN FALSE
    ELSE LET l == fn[i]
         IN IF l.k = "return_false" THEN FALSE
            ELSE IF /\ l.k = "block"
                    /\ BlockCompiledIn(l, defined)
                    /\ BlockEntered(l, exts, openxr_version)
                    /\ SwitchReturnsTrue(l.cases, str, length)
            THEN TRUE
            ELSE Run(fn, i + 1, defined, exts, openxr_version, str, length)

\* execution of a generated oxr_verify_<name>_ext on (extensions, openxr_version)
RECURSIVE RunExt(_, _, _, _, _, _, _)
RunExt(fn, i, defined, exts, openxr_version, keep, st) ==
    IF i > Len(fn) THEN st
    ELSE LET l == fn[i]
             val(x) == IF x = "extensions->" THEN l.e \subseteq exts ELSE x = "true"
             go(k2, st2) == RunExt(fn, i + 1, defined, exts, openxr_version, k2, st2)
         IN CASE l.k = "#ifdef" -> go(l.ifdef \subseteq defined, st)
              [] l.k = "#else" -> go(~keep, st)
              [] l.k = "#endif" -> go(TRUE, st)
              [] l.k = "promoted" /\ keep ->
                    IF VersionGE(openxr_version, l.v)
                    THEN [supported |-> val(l.sup), enabled |-> val(l.en)]
                    ELSE go(keep, st)
              [] l.k = "set" /\ keep ->
                    go(keep, [supported |-> val(l.sup), enabled |-> val(l.en)])
              [] l.k = "func_end" -> st
              [] OTHER -> go(keep, st)

\* the lines of the function oxr_verify_<name><suffix> within a generated text
FuncLines(lines, name, suffix) ==
    LET first == CHOOSE i \in 1..Len(lines) :
                    lines[i].k = "func_begin" /\ lines[i].n = name /\ lines[i].t = suffix
        last == CHOOSE j \in first..Len(lines) :
                    /\ lines[j].k = "func_end"
                    /\ \A m \in first..(j - 1) : lines[m].k # "func_end"
    IN SubSeq(lines, first, last)

\* result of the generated matcher in a build with `defined', at run time
Matches(fn, defined, exts, openxr_version, str, length) ==
    Run(fn, 1, defined, exts \cap defined, openxr_version, str, length)

ExtStatus(fn, defined, exts, openxr_version) ==
    RunExt(fn, 1, defined, exts \cap defined, openxr_version, TRUE,
           [supported |-> FALSE, enabled |-> FALSE])

\* ---------------------------------------------------------------- inputs
PromotedVersions == {NoVersion} \cup {Version(1, m) : m \in 1..MaxMinor}

RuntimeVersions == {Version(1, m) : m \in 0..MaxMinor}

\* the strings of the fixtures: a, b, aa, ab, ba, bb
PathsOf(name, dict_name) ==
    CASE dict_name = "subpaths_by_length" ->
            (CASE name = 1 -> <<<<2, 1>>, <<1, 2>>, <<2>>>>
               [] name = 2 -> <<<<1, 2>>, <<1, 1>>>>
               [] OTHER -> <<<<1>>>>)
      [] dict_name = "dpad_paths_by_length" ->
            (CASE name = 1 -> <<<<1>>>>
               [] name = 2 -> <<<<2, 2>>, <<1>>>>
               [] OTHER -> <<>>)
      [] OTHER ->
            (CASE name = 1 -> <<>>
               [] name = 2 -> <<<<2>>>>
               [] OTHER -> <<<<1, 2>>, <<2>>>>)

DictNames == {"subpaths_by_length", "dpad_paths_by_length", "dpad_emulators_by_length"}

SuffixOf(dict_name) ==
    CASE dict_name = "subpaths_by_length" -> "_subpath"
      [] dict_name = "dpad_paths_by_length" -> "_dpad_path"
      [] OTHER -> "_dpad_emulator"

TestStrings ==
    {<<1>>, <<2>>, <<1, 1>>, <<1, 2>>, <<2, 1>>, <<2, 2>>, <<1, 1, 1>>}

MkProfile(name, parents, ext, promoted, components, identifiers) ==
    [name |-> name,
     validation_func_name |-> name,
     localized_name |-> name,
     monado_device_enum |-> name,
     parent_profiles |-> parents,
     extension_name |-> ext,
     openxr_version_promoted |-> promoted,
     subpaths_by_length |-> ByLength(PathsOf(name, "subpaths_by_length")),
     dpad_paths_by_length |-> ByLength(PathsOf(name, "dpad_paths_by_length")),
     dpad_emulators_by_length |-> ByLength(PathsOf(name, "dpad_emulators_by_length")),
     components |-> components,
     identifiers |-> identifiers]

\* parent lists as stored (any order); parents carry greater names, so the
\* parent relation is a DAG, with two paths from 1 to 3 when 1 -> 2 -> 3 and 1 -> 3
ParentLists(name) ==
    CASE name = 1 -> {<<>>, <<2>>, <<3>>, <<2, 3>>, <<3, 2>>}
      [] name = 2 -> {<<>>, <<3>>}
      [] OTHER -> {<<>>}

\* ---------------------------------------------------------------- compiling the verify functions
InitVerify ==
    /\ \E par \in [ProfileNames -> UNION {ParentLists(n) : n \in ProfileNames}],
          ext \in [ProfileNames -> {None} \cup Extensions],
          ver \in [ProfileNames -> PromotedVersions] :
          /\ \A n \in ProfileNames : par[n] \in ParentLists(n)
          /\ b = [profiles |->
                    [i \in 1..3 |->
                        LET n == <<2, 3, 1>>[i]
                        IN MkProfile(n, par[n], ext[n], ver[n], <<>>, <<>>)]]
    /\ pc = "verify"
    /\ pidx = 1
    /\ out = <<>>
    /\ driver = "oxr"
    /\ argv = <<>>
    /\ outIdx = 1
    /\ files = <<>>

\* one iteration of the comprehension over b.profiles
GetVerifyFunctions ==
    /\ pc = "verify"
    /\ pidx <= Len(b.profiles)
    /\ out' = get_verify_functions(b.profiles[pidx])
    /\ pidx' = pidx + 1
    /\ UNCHANGED <<b, pc, driver, argv, outIdx, files>>

NextVerify == GetVerifyFunctions

SpecVerify == InitVerify /\ [][NextVerify]_vars

\* the profile whose functions `out' holds
Compiled == b.profiles[pidx - 1]

Builds == SUBSET Extensions

\* ---------------------------------------------------------------- the generator runs
LeftHand == "/user/hand/left"

RightHand == "/user/hand/right"

BindingOf(component_name, subaction_path) ==
    (CASE component_name = "click" -> 10
       [] component_name = "haptic" -> 20
       [] OTHER -> 30)
    + (IF subaction_path = LeftHand THEN 1 ELSE 2)

MkComponent(component_name, subaction_path, identifier_json_path, bound, dpad, activate) ==
    [component_name |-> component_name,
     subaction_path |-> subaction_path,
     identifier_json_path |-> identifier_json_path,
     steamvr_path |-> <<"/input/", identifier_json_path>>,
     subpath_localized_name |-> component_name,
     monado_binding |-> IF bound THEN BindingOf(component_name, subaction_path) ELSE None,
     dpad_emulation |-> [present |-> dpad, activate |-> activate],
     paths |-> <<<<subaction_path, "/input/", identifier_json_path, "/", component_name>>>>]

\* #define PATHS_PER_BINDING_TEMPLATE 16: the capacity of the paths arrays
PATHS_PER_BINDING_TEMPLATE == 16

\* a component for which get_full_openxr_paths() returns n alternate paths
WithPaths(component, n) ==
    [component EXCEPT
        !.paths = [i \in 1..n |->
                     <<component.subaction_path, "/input/", component.identifier_json_path,
                       "/", component.component_name, ToString(i)>>]]

\* the components a profile of the input is made of
ComponentUniverse ==
    {WithPaths(MkComponent("click", LeftHand, "thumbstick", TRUE, FALSE, ""), n) :
        n \in {PATHS_PER_BINDING_TEMPLATE - 1, PATHS_PER_BINDING_TEMPLATE}}
    \cup
    {MkComponent("click", LeftHand, "trackpad", bound, FALSE, "") : bound \in BOOLEAN}
    \cup {MkComponent("click", RightHand, "trackpad", TRUE, FALSE, ""),
          MkComponent("click", LeftHand, "thumbstick", TRUE, FALSE, ""),
          MkComponent("haptic", LeftHand, "haptic", TRUE, FALSE, ""),
          MkComponent("position", RightHand, "trackpad", TRUE, TRUE, "click"),
          MkComponent("position", LeftHand, "thumbstick", TRUE, TRUE, "click")}
    \cup {MkComponent("position", LeftHand, "trackpad", bound, TRUE, activate) :
              bound \in BOOLEAN, activate \in {"", "click", "force"}}

ComponentKey(component) ==
    <<component.component_name, component.subaction_path, component.identifier_json_path>>

\* component lists of the loader: at most MaxComponents, no two with one key
ComponentLists ==
    {cs \in UNION {[1..n -> ComponentUniverse] : n \in 0..MaxComponents} :
        \A i, j \in 1..Len(cs) : ComponentKey(cs[i]) = ComponentKey(cs[j]) => i = j}

MkIdentifier(subaction_path, dpad, position, activate) ==
    [subaction_path |-> subaction_path,
     dpad |-> [present |-> dpad,
               paths |-> IF dpad
                         THEN [d \in 1..4 |->
                                <<subaction_path, "/input/trackpad/dpad_",
                                  <<"up", "down", "left", "right">>[d]>>]
                         ELSE <<>>,
               position_component |-> [monado_binding |-> position],
               activate_component |->
                   IF activate = None THEN <<>> ELSE <<[monado_binding |-> activate]>>]]

EmitIdentifiers ==
    <<MkIdentifier(LeftHand, FALSE, None, None),
      MkIdentifier(LeftHand, TRUE, 31, 11),
      MkIdentifier(RightHand, TRUE, 32, None)>>

OxrC == "gen/b_oxr_generated_bindings.c"

OxrH == "gen/b_oxr_generated_bindings.h"

OvrdC == "gen/b_ovrd_generated_bindings.c"

OvrdH == "gen/b_ovrd_generated_bindings.h"

Other == "gen/bindings.stamp"

OutputNames == {OxrC, OxrH, OvrdC, OvrdH, Other}

\* output.endswith(suffix) for the suffixes the two main() test
EndsWith(output, suffix) ==
    \/ suffix = "oxr_generated_bindings.c" /\ output = OxrC
    \/ suffix = "oxr_generated_bindings.h" /\ output = OxrH
    \/ suffix = "ovrd_generated_bindings.c" /\ output = OvrdC
    \/ suffix = "ovrd_generated_bindings.h" /\ output = OvrdH

CSuffix == IF driver = "oxr" THEN "oxr_generated_bindings.c" ELSE "ovrd_generated_bindings.c"

HSuffix == IF driver = "oxr" THEN "oxr_generated_bindings.h" ELSE "ovrd_generated_bindings.h"

CommandLines(d) ==
    LET c == IF d = "oxr" THEN OxrC ELSE OvrdC
        h == IF d = "oxr" THEN OxrH ELSE OvrdH
    IN {<<h, c>>, <<c, Other, h>>, <<c>>}

NoFile == [exists |-> FALSE, closed |-> FALSE, lines |-> <<>>]

InitEmit ==
    /\ \E cs \in ComponentLists :
          b = [profiles |->
                 <<MkProfile(2, <<>>, None, NoVersion,
                             <<MkComponent("click", RightHand, "trigger", TRUE, FALSE, "")>>,
                             <<>>),
                   MkProfile(1, <<2>>, 1, Version(1, 1), cs, EmitIdentifiers)>>]
    /\ driver \in {"oxr", "ovrd"}
    /\ argv \in CommandLines(driver)
    /\ pc = "main"
    /\ outIdx = 1
    /\ pidx = 1
    /\ out = <<>>
    /\ files = [o \in OutputNames |-> NoFile]

Append_(file, lines) == [file EXCEPT !.lines = @ \o lines]

\* f = open(file, "w")
OpenC ==
    /\ pc = "main"
    /\ outIdx <= Len(argv)
    /\ EndsWith(argv[outIdx], CSuffix)
    /\ files' = [files EXCEPT ![argv[outIdx]] =
                    [exists |-> TRUE, closed |-> FALSE, lines |-> <<>>]]
    /\ pc' = "preamble"
    /\ UNCHANGED <<b, pidx, out, driver, argv, outIdx>>

WritePreamble ==
    /\ pc = "preamble"
    /\ files' = [files EXCEPT ![argv[outIdx]] =
                    Append_(@, IF driver = "oxr" THEN oxr_preamble ELSE ovrd_preamble)]
    /\ pc' = "profiles"
    /\ pidx' = 1
    /\ UNCHANGED <<b, out, driver, argv, outIdx>>

ProfileTemplate(profile) ==
    IF driver = "oxr" THEN oxr_profile_template(profile)
    ELSE ovrd_profile_template(profile)

WriteProfile ==
    /\ pc = "profiles"
    /\ pidx <= Len(b.profiles)
    /\ ~ProfileTemplate(b.profiles[pidx]).error
    /\ files' = [files EXCEPT ![argv[outIdx]] =
                    Append_(@, ProfileTemplate(b.profiles[pidx]).lines)]
    /\ pidx' = pidx + 1
    /\ UNCHANGED <<b, pc, out, driver, argv, outIdx>>

\* the exception leaves main(); what was written so far stays in the file
WriteProfileFails ==
    /\ pc = "profiles"
    /\ pidx <= Len(b.profiles)
    /\ ProfileTemplate(b.profiles[pidx]).error
    /\ files' = [files EXCEPT ![argv[outIdx]] =
                    Append_(@, ProfileTemplate(b.profiles[pidx]).lines)]
    /\ pc' = "error"
    /\ UNCHANGED <<b, pidx, out, driver, argv, outIdx>>

CloseC ==
    /\ pc = "profiles"
    /\ pidx > Len(b.profiles)
    /\ files' = [files EXCEPT ![argv[outIdx]] =
                    [Append_(@, <<Ln("/profile_templates")>>) EXCEPT !.closed = TRUE]]
    /\ pc' = "main"
    /\ outIdx' = outIdx + 1
    /\ UNCHANGED <<b, pidx, out, driver, argv>>

\* generate_bindings_h / ovrd_generate_bindings_h
HeaderFile ==
    <<[Ln("h_template") EXCEPT !.t = driver, !.n = Len(b.profiles)]>>
    \o (IF driver = "oxr"
        THEN Flatten([i \in 1..Len(b.profiles) |->
                [j \in 1..4 |->
                    [Ln("proto") EXCEPT
                        !.n = b.profiles[i].validation_func_name,
                        !.t = <<"_subpath", "_dpad_path", "_dpad_emulator", "_ext">>[j]]]])
        ELSE <<>>)

GenerateH ==
    /\ pc = "main"
    /\ outIdx <= Len(argv)
    /\ EndsWith(argv[outIdx], HSuffix)
    /\ files' = [files EXCEPT ![argv[outIdx]] =
                    [exists |-> TRUE, closed |-> TRUE, lines |-> HeaderFile]]
    /\ outIdx' = outIdx + 1
    /\ UNCHANGED <<b, pc, pidx, out, driver, argv>>

\* an output name of neither kind is passed over
SkipOutput ==
    /\ pc = "main"
    /\ outIdx <= Len(argv)
    /\ ~EndsWith(argv[outIdx], CSuffix)
    /\ ~EndsWith(argv[outIdx], HSuffix)
    /\ outIdx' = outIdx + 1
    /\ UNCHANGED <<b, pc, pidx, out, driver, argv, files>>

Exit ==
    /\ pc = "main"
    /\ outIdx > Len(argv)
    /\ pc' = "done"
    /\ UNCHANGED <<b, pidx, out, driver, argv, outIdx, files>>

NextEmit ==
    \/ OpenC
    \/ WritePreamble
    \/ WriteProfile
    \/ WriteProfileFails
    \/ CloseC
    \/ GenerateH
    \/ SkipOutput
    \/ Exit

SpecEmit == InitEmit /\ [][NextEmit]_vars


\* ---------------------------------------------------------------- vocabulary of the properties
Strings(dict_of_lists) == UNION {Range(dict_of_lists[n]) : n \in DOMAIN dict_of_lists}

\* the parent paths starting at a profile, in the order of the resolution
RECURSIVE PathsFrom(_)
PathsFrom(name) ==
    LET pps == SortSeq(ProfileByName(name).parent_profiles, IntLess)
    IN <<<<name>>>>
       \o Flatten([i \in 1..Len(pps) |->
                     [j \in 1..Len(PathsFrom(pps[i])) |->
                         <<name>> \o PathsFrom(pps[i])[j]]])

Last(path) == path[Len(path)]

\* intersection of the availabilities of every profile on a path
RECURSIVE AccAvail(_)
AccAvail(path) ==
    IF Len(path) = 1 THEN availability(ProfileByName(path[1]))
    ELSE intersection(AccAvail(SubSeq(path, 1, Len(path) - 1)),
                      availability(ProfileByName(Last(path))))

FeatureSetHolds(fs, cfg) ==
    /\ fs.required_extensions \subseteq cfg.exts
    /\ is_valid_version(fs.required_version)
          => VersionGE(cfg.version, fs.required_version)

\* the gating condition of a profile holds
Gate(name, cfg) ==
    \E fs \in availability(ProfileByName(name)) : FeatureSetHolds(fs, cfg)

Fn(dict_name) == FuncLines(out, Compiled.validation_func_name, SuffixOf(dict_name))

Configs ==
    {cfg \in [defined : Builds, exts : Builds, version : RuntimeVersions] :
        cfg.exts \subseteq cfg.defined}

MatchesIn(fn, cfg, str) ==
    Matches(fn, cfg.defined, cfg.exts, cfg.version, str, Len(str))

\* every guard a block opens is closed by the block itself, innermost first
Closed(l) ==
    l.closing = (IF l.e # {} \/ l.ifdef # {} THEN <<"}#endif">> ELSE <<>>)
                    \o (IF is_valid_version(l.v) THEN <<"}">> ELSE <<>>)

\* a block guarded by the version check alone that holds strs
VersionOnlyBlock(l, version, strs) ==
    /\ l.k = "block"
    /\ l.v = version
    /\ l.ifdef = {}
    /\ l.e = {}
    /\ Closed(l)
    /\ UNION {Range(l.cases[c].paths) : c \in 1..Len(l.cases)} = strs

VersionOnly(fs) ==
    is_valid_version(fs.required_version) /\ fs.required_extensions = {}

\* C1: every feature set reached during resolution that requires a minimum
\* version and no extension gets a block guarded by the version check alone,
\* outside every #if region and without any exts-> flag; so in every build,
\* also one with extensions compiled out, the matcher compiles and returns
\* true for every entry of that block once the runtime version is met.
C1_VersionOnlyBlocksSurvive ==
    pidx > 1 =>
        \A dict_name \in DictNames :
            LET fn == Fn(dict_name)
                paths == PathsFrom(Compiled.name)
            IN \A p \in 1..Len(paths) :
                 LET dict == ProfileByName(Last(paths[p]))[dict_name]
                 IN \A fs \in AccAvail(paths[p]) :
                      (VersionOnly(fs) /\ DOMAIN dict # {}) =>
                        /\ \E i \in 1..Len(fn) :
                              VersionOnlyBlock(fn[i], fs.required_version, Strings(dict))
                        /\ \A cfg \in Configs :
                              /\ Compiles(fn, cfg.defined)
                              /\ VersionGE(cfg.version, fs.required_version) =>
                                    \A str \in Strings(dict) : MatchesIn(fn, cfg, str)

\* a profile gated by an extension or by a version has been compiled, and in
\* the build without its extension a runtime of that version matches its entries
C1_Witness ==
    /\ pidx > 1
    /\ Compiled.extension_name # None
    /\ is_valid_version(Compiled.openxr_version_promoted)
    /\ \E i \in 1..Len(Fn("subpaths_by_length")) :
          VersionOnlyBlock(Fn("subpaths_by_length")[i],
                           Compiled.openxr_version_promoted,
                           Strings(Compiled.subpaths_by_length))
    /\ \E str \in Strings(Compiled.subpaths_by_length) :
          Matches(Fn("subpaths_by_length"), {}, {},
                  Compiled.openxr_version_promoted, str, Len(str))

\* the statements of a matcher between its signature and "return false;"
Body(fn) == SubSeq(fn, 2, Len(fn) - 2)

\* C2: every ancestor is emitted once per distinct parent path, in the order
\* of the resolution, guarded by the intersection of the availabilities of
\* every profile on the path; so for a profile with ancestors a string
\* matches only if it is an entry of a profile reached by a path all of whose
\* gating conditions hold.
C2_InheritedEntriesGatedByWholePath ==
    pidx > 1 =>
        \A dict_name \in DictNames :
            \A fn \in {Fn(dict_name)}, paths \in {PathsFrom(Compiled.name)} :
               /\ Body(fn) =
                    Flatten([p \in 1..Len(paths) |->
                        get_verify_func_switch(ProfileByName(Last(paths[p]))[dict_name],
                                               Last(paths[p]), AccAvail(paths[p]))])
               /\ Len(paths) > 1 =>
                     \A cfg \in Configs, str \in TestStrings :
                        MatchesIn(fn, cfg, str) =>
                           \E p \in 1..Len(paths) :
                               /\ str \in Strings(ProfileByName(Last(paths[p]))[dict_name])
                               /\ \A q \in Range(paths[p]) : Gate(q, cfg)

\* an entry of a grandparent matches through a path of three gated profiles
C2_Witness ==
    /\ pidx > 1
    /\ \E path \in Range(PathsFrom(Compiled.name)) :
          /\ Len(path) = 3
          /\ \A q \in Range(path) :
                availability(ProfileByName(q)) # {FeatureSet({}, NoVersion)}
          /\ \E cfg \in Configs :
                /\ MatchesIn(Fn("subpaths_by_length"), cfg, <<1>>)
                /\ \A q \in Range(path) : Gate(q, cfg)

NoOwnRequirement(profile) ==
    /\ profile.parent_profiles = <<>>
    /\ profile.extension_name = None
    /\ ~is_valid_version(profile.openxr_version_promoted)

\* C3: for a profile with no parents and no extension or version requirement
\* each of the three matchers carries no version check and no extension
\* check, and on (str, len(str)) returns true exactly for the strings of the
\* profile's path set of that kind.
C3_UnconditionalProfileMatchesExactlyItsPaths ==
    (pidx > 1 /\ NoOwnRequirement(Compiled)) =>
        \A dict_name \in DictNames :
            LET fn == Fn(dict_name)
            IN /\ \A i \in 1..Len(fn) :
                     /\ fn[i].k \notin {"promoted", "#ifdef", "#else", "#endif"}
                     /\ ~is_valid_version(fn[i].v)
                     /\ fn[i].ifdef = {}
                     /\ fn[i].e = {}
               /\ \A cfg \in Configs, str \in TestStrings :
                     /\ Compiles(fn, cfg.defined)
                     /\ MatchesIn(fn, cfg, str) <=> str \in Strings(Compiled[dict_name])

\* profile 1 compiled without any requirement: ab matches, aa of the same
\* length and aaa of an unlisted length do not
C3_Witness ==
    /\ pidx > 1
    /\ NoOwnRequirement(Compiled)
    /\ Compiled.name = 1
    /\ \A cfg \in Configs :
          /\ MatchesIn(Fn("subpaths_by_length"), cfg, <<1, 2>>)
          /\ MatchesIn(Fn("subpaths_by_length"), cfg, <<2, 1>>)
          /\ ~MatchesIn(Fn("subpaths_by_length"), cfg, <<1, 1>>)
          /\ ~MatchesIn(Fn("subpaths_by_length"), cfg, <<1, 1, 1>>)

\* C4: oxr_verify_<name>_ext sets supported = enabled = true when the profile
\* has a promoted version that the runtime version meets; otherwise supported
\* is true exactly when the extension is compiled in or none is required, and
\* enabled is true exactly when the extension is compiled in and active, or
\* the profile has neither an extension nor a promoted version.
C4_ExtStatusAsSpecified ==
    pidx > 1 =>
        LET fn == FuncLines(out, Compiled.validation_func_name, "_ext")
            ext == Compiled.extension_name
            promoted == Compiled.openxr_version_promoted
        IN \A defined \in Builds, exts \in Builds, version \in RuntimeVersions :
              LET st == ExtStatus(fn, defined, exts, version)
              IN /\ ExtCompiles(fn, defined)
                 /\ IF is_valid_version(promoted) /\ VersionGE(version, promoted)
                    THEN st.supported /\ st.enabled
                    ELSE /\ st.supported <=> (ext = None \/ ext \in defined)
                         /\ st.enabled <=>
                              \/ (ext # None /\ ext \in defined /\ ext \in exts)
                              \/ (ext = None /\ ~is_valid_version(promoted))

BlockStrings(l) == UNION {Range(l.cases[c].paths) : c \in 1..Len(l.cases)}

\* a profile without extension requirement whose two parents require two
\* different extensions
TwoDisjointParents(profile) ==
    /\ profile.extension_name = None
    /\ Len(profile.parent_profiles) = 2
    /\ LET pa == ProfileByName(profile.parent_profiles[1])
           pb == ProfileByName(profile.parent_profiles[2])
       IN /\ pa.extension_name # None
          /\ pb.extension_name # None
          /\ pa.extension_name # pb.extension_name

\* C9: a profile without extension requirement that inherits from two parents
\* with disjoint extension requirements gets one block per parent guarded by
\* that parent's extension alone; every block closes the guards it opened, so
\* no block is nested in another, and no block requires both extensions.
C9_DisjointParentsGetIndependentBlocks ==
    (pidx > 1 /\ TwoDisjointParents(Compiled)) =>
        \A dict_name \in DictNames :
            LET fn == Fn(dict_name)
                pa == ProfileByName(Compiled.parent_profiles[1])
                pb == ProfileByName(Compiled.parent_profiles[2])
                both == {pa.extension_name, pb.extension_name}
            IN (DOMAIN pa[dict_name] # {} /\ DOMAIN pb[dict_name] # {}) =>
                 /\ \A pp \in {pa, pb} :
                       /\ \E i \in 1..Len(fn) :
                             /\ fn[i].k = "block"
                             /\ fn[i].ifdef = {pp.extension_name}
                             /\ fn[i].e = {pp.extension_name}
                             /\ fn[i].v = Compiled.openxr_version_promoted
                             /\ BlockStrings(fn[i]) = Strings(pp[dict_name])
                       /\ \A cfg \in Configs :
                             (Gate(Compiled.name, cfg) /\ pp.extension_name \in cfg.exts) =>
                                \A str \in Strings(pp[dict_name]) : MatchesIn(fn, cfg, str)
                 /\ \A i \in 1..Len(fn) :
                       fn[i].k = "block" =>
                          /\ Closed(fn[i])
                          /\ ~(both \subseteq fn[i].e)
                          /\ ~(both \subseteq fn[i].ifdef)

\* with only one of the two extensions active, the entries of that parent
\* match and those of the other parent do not
C9_Witness ==
    /\ pidx > 1
    /\ TwoDisjointParents(Compiled)
    /\ ProfileByName(2).extension_name = 1
    /\ ProfileByName(3).extension_name = 2
    /\ ProfileByName(2).parent_profiles = <<3>>
    /\ LET cfg == [defined |-> {1}, exts |-> {1}, version |-> Version(1, 0)]
       IN /\ Gate(Compiled.name, cfg)
          /\ MatchesIn(Fn("subpaths_by_length"), cfg, <<1, 1>>)
          /\ ~MatchesIn(Fn("subpaths_by_length"), cfg, <<1>>)

\* the resolution's visits that emit anything: the paths to a non-empty dict
Visits(name, dict_name) ==
    SelectSeq(PathsFrom(name),
              LAMBDA path : DOMAIN ProfileByName(Last(path))[dict_name] # {})

CommentIndex(fn, k) ==
    CHOOSE i \in 1..Len(fn) :
        /\ fn[i].k = "comment"
        /\ Cardinality({j \in 1..i : fn[j].k = "comment"}) = k

\* the statements emitted for the k-th visit after its "generated from" comment
Segment(fn, k, count) ==
    LET first == CommentIndex(fn, k)
        next == IF k < count THEN CommentIndex(fn, k + 1) ELSE Len(fn) - 1
    IN SubSeq(fn, first + 1, next - 1)

\* C10: for a path whose accumulated availability has no surviving feature
\* set nothing but the "generated from" comment is emitted: no guard and no
\* switch; the later visits are still emitted and the function is completed,
\* every emitted block holds a switch with entries, and an entry of the
\* dropped visit matches only through another path whose accumulated
\* availability is not empty.
C10_EmptyAvailabilityEmitsNothing ==
    pidx > 1 =>
        \A dict_name \in DictNames :
            \A fn \in {Fn(dict_name)}, visits \in {Visits(Compiled.name, dict_name)} :
               /\ Cardinality({i \in 1..Len(fn) : fn[i].k = "comment"}) = Len(visits)
               /\ fn[Len(fn) - 1].k = "return_false"
               /\ \A k \in 1..Len(visits) :
                     /\ fn[CommentIndex(fn, k)].n = Last(visits[k])
                     /\ Len(Segment(fn, k, Len(visits))) = Cardinality(AccAvail(visits[k]))
               /\ \A i \in 1..Len(fn) :
                     fn[i].k = "block" => (Len(fn[i].cases) > 0 /\ BlockStrings(fn[i]) # {})
               /\ \A d \in 1..Len(visits) :
                     AccAvail(visits[d]) = {} =>
                        \A cfg \in Configs,
                           str \in Strings(ProfileByName(Last(visits[d]))[dict_name]) :
                           MatchesIn(fn, cfg, str) =>
                              \E k \in 1..Len(visits) :
                                  /\ AccAvail(visits[k]) # {}
                                  /\ str \in Strings(ProfileByName(Last(visits[k]))[dict_name])

\* a visit with an empty accumulated availability is followed by a visit that
\* is emitted, and the entry of the dropped visit matches in no configuration
C10_Witness ==
    /\ pidx > 1
    /\ LET visits == Visits(Compiled.name, "subpaths_by_length")
           fn == Fn("subpaths_by_length")
       IN \E k \in 1..Len(visits) :
             /\ AccAvail(visits[k]) = {}
             /\ Last(visits[k]) = 2
             /\ Segment(fn, k, Len(visits)) = <<>>
             /\ \E m \in (k + 1)..Len(visits) :
                   /\ AccAvail(visits[m]) # {}
                   /\ Len(Segment(fn, m, Len(visits))) > 0
             /\ \A cfg \in Configs : ~MatchesIn(fn, cfg, <<1, 1>>)

\* ---------------------------------------------------------------- the emitted records
Count(lines, kind) == Cardinality({i \in 1..Len(lines) : lines[i].k = kind})

\* index of the k-th statement of a kind
NthIndex(lines, kind, k) ==
    CHOOSE i \in 1..Len(lines) :
        /\ lines[i].k = kind
        /\ Cardinality({j \in 1..i : lines[j].k = kind}) = k

\* the value a C compiler gives a member of the record opened at line i:
\* its designated initializer if one is written before the record closes, else 0
Member(lines, i, close, name) ==
    LET last == CHOOSE j \in i..(Len(lines) + 1) :
                    /\ j > Len(lines) \/ lines[j].k = close
                    /\ \A m \in i..(j - 1) : lines[m].k # close
        at == {j \in i..(last - 1) : lines[j].k = "field" /\ lines[j].t = name}
    IN IF at = {} THEN "0" ELSE lines[CHOOSE j \in at : TRUE].val

\* the binding records written so far for the k-th profile record of a text
BindingRecords(lines, k) ==
    LET first == NthIndex(lines, "profile_template", k)
        last == IF Count(lines, "profile_template") > k
                THEN NthIndex(lines, "profile_template", k + 1) ELSE Len(lines) + 1
    IN SelectSeq([i \in 1..(last - first) |-> first + i - 1],
                 LAMBDA i : lines[i].k = "binding_template")

Names(component, profile) ==
    {c \in Range(profile.components) :
        /\ c.component_name = component.dpad_emulation.activate
        /\ c.subaction_path = component.subaction_path
        /\ c.identifier_json_path = component.identifier_json_path}

Dangling(component, profile) ==
    /\ has_dpad_emulation(component)
    /\ names_activate(component)
    /\ Names(component, profile) = {}

\* C6: for a component whose dpad_emulation names an activate component that
\* no component of the profile matches, with or without a monado_binding of
\* its own, generation aborts: no binding record is completed for it and the
\* run does not finish.
C6_DanglingActivateIsFatal ==
    /\ \A o \in OutputNames :
          LET lines == files[o].lines
          IN \A k \in 1..Count(lines, "profile_template") :
                LET recs == BindingRecords(lines, k)
                IN \A j \in 1..Len(recs) :
                      (\E m \in recs[j]..Len(lines) :
                            lines[m].k = "/binding_template" /\ lines[m].n = j - 1
                            /\ m < (IF j < Len(recs) THEN recs[j + 1] ELSE Len(lines) + 1))
                        => ~Dangling(b.profiles[k].components[j], b.profiles[k])
    /\ pc = "done" =>
          \A k \in 1..Len(b.profiles) :
             \A c \in Range(b.profiles[k].components) : ~Dangling(c, b.profiles[k])

\* C7: when a fatal error has occurred no output file of the command line is
\* in place: none has been created, truncated or written.
C7_NoOutputFileLeftAfterFatalError ==
    pc = "error" => \A o \in OutputNames : ~files[o].exists

BindingKinds ==
    {"profile_templates", "profile_template", "binding_template", "field",
     "/binding_template", "/bindings", "dpad_count", "dpads", "dpad_emulation",
     "/dpads", "/profile_template", "/profile_templates"}

\* the profile records of a text without the verification-function
\* references, the promoted version and the extension name
BindingContent(lines) == SelectSeq(lines, LAMBDA l : l.k \in BindingKinds)

RECURSIVE TemplatesFrom(_, _)
TemplatesFrom(d, i) ==
    IF i > Len(b.profiles) THEN [lines |-> <<>>, error |-> FALSE]
    ELSE LET one == IF d = "oxr" THEN oxr_profile_template(b.profiles[i])
                    ELSE ovrd_profile_template(b.profiles[i])
         IN IF one.error THEN one
            ELSE LET rest == TemplatesFrom(d, i + 1)
                 IN [lines |-> one.lines \o rest.lines, error |-> rest.error]

\* what the generator d writes into its C file for the loaded profiles
WholeFile(d) ==
    LET templates == TemplatesFrom(d, 1)
    IN [lines |-> (IF d = "oxr" THEN oxr_preamble ELSE ovrd_preamble)
                    \o templates.lines
                    \o (IF templates.error THEN <<>> ELSE <<Ln("/profile_templates")>>),
        error |-> templates.error]

OtherDriver == IF driver = "oxr" THEN "ovrd" ELSE "oxr"

CFile == IF driver = "oxr" THEN OxrC ELSE OvrdC

\* C8: on one loaded profile set the two generators fail together or write
\* the same profile records in the same order: the C file one of them has
\* completed holds the binding and dpad content the other one writes.
C8_BothEmittersWriteTheSameBindingContent ==
    /\ files[CFile].closed =>
          /\ ~WholeFile(OtherDriver).error
          /\ BindingContent(files[CFile].lines)
                = BindingContent(WholeFile(OtherDriver).lines)
    /\ pc = "error" => WholeFile(OtherDriver).error

\* the SteamVR generator has finished a file with a resolved dpad_activate
\* and dpad records
C8_Witness ==
    /\ pc = "done"
    /\ driver = "ovrd"
    /\ files[OvrdC].closed
    /\ \E i \in 1..Len(files[OvrdC].lines) :
          /\ files[OvrdC].lines[i].k = "field"
          /\ files[OvrdC].lines[i].t = "dpad_activate"
          /\ files[OvrdC].lines[i].val = "11"
    /\ \E i \in 1..Len(files[OvrdC].lines) :
          /\ files[OvrdC].lines[i].k = "field"
          /\ files[OvrdC].lines[i].t = "input"
          /\ files[OvrdC].lines[i].val = "31"
    /\ Count(files[OvrdC].lines, "dpad_emulation") > 0

\* two blocks of one function under the same version and extension conditions
SameGuard(k, l) ==
    /\ k.k = "block"
    /\ l.k = "block"
    /\ k.v = l.v
    /\ k.ifdef = l.ifdef
    /\ k.e = l.e

\* C11: in every generated matcher, taking the profile's own entries and those
\* of all ancestors reached recursively together, no string is compared
\* against twice under the same version and extension conditions.
C11_NoStringTwiceUnderOneGuard ==
    pidx > 1 =>
        \A dict_name \in DictNames :
            \A fn \in {Fn(dict_name)} :
                \A i, j \in 1..Len(fn) :
                    (i < j /\ SameGuard(fn[i], fn[j])) =>
                        BlockStrings(fn[i]) \cap BlockStrings(fn[j]) = {}

\* ---------------------------------------------------------------- a second run
\* the orders a list can be stored in
Perms(s) ==
    IF Len(s) <= 1 THEN {s}
    ELSE {t \in [1..Len(s) -> Range(s)] :
            \A x \in Range(s) :
                Cardinality({i \in 1..Len(s) : t[i] = x})
                    = Cardinality({i \in 1..Len(s) : s[i] = x})}

\* a length -> strings dict with the strings of each bucket stored in any order
DictOrders(dict) ==
    {d \in [DOMAIN dict -> UNION {Perms(dict[n]) : n \in DOMAIN dict}] :
        \A n \in DOMAIN dict : d[n] \in Perms(dict[n])}

\* a profile with its parents and its bucket strings stored in any order
ProfileOrders(profile) ==
    {[profile EXCEPT !.parent_profiles = pp,
                     !.subpaths_by_length = sub,
                     !.dpad_paths_by_length = dpad,
                     !.dpad_emulators_by_length = emu] :
        pp \in Perms(profile.parent_profiles),
        sub \in DictOrders(profile.subpaths_by_length),
        dpad \in DictOrders(profile.dpad_paths_by_length),
        emu \in DictOrders(profile.dpad_emulators_by_length)}

\* the profiles up to the i-th in the same source-defined order, each stored
\* in any order
RECURSIVE ProfilesOrders(_, _)
ProfilesOrders(profiles, i) ==
    IF i = 0 THEN {<<>>}
    ELSE {Append(qs, q) : qs \in ProfilesOrders(profiles, i - 1),
                          q \in ProfileOrders(profiles[i])}

Reloaded(bindings) ==
    {[profiles |-> ps] : ps \in ProfilesOrders(bindings.profiles, Len(bindings.profiles))}

\* the text of the first run is kept and the profile set is loaded again, as
\* another load stores it
Reload ==
    /\ pc = "verify"
    /\ pidx > 1
    /\ b' \in Reloaded(b)
    /\ files' = [bindings |-> b, text |-> out]
    /\ out' = <<>>
    /\ pc' = "reload"
    /\ UNCHANGED <<pidx, driver, argv, outIdx>>

\* the second run, up to the profile the first run has reached
Rerun ==
    /\ pc = "reload"
    /\ out' = get_verify_functions(b.profiles[pidx - 1])
    /\ pc' = "rerun"
    /\ UNCHANGED <<b, pidx, driver, argv, outIdx, files>>

NextRuns == GetVerifyFunctions \/ Reload \/ Rerun

SpecRuns == InitVerify /\ [][NextRuns]_vars

\* the feature set a block is guarded by
GuardOf(l) == FeatureSet(l.e, l.v)

CaseLess(c, d) == c.length < d.length

BlockLess(k, l) == FeatureSetLess(GuardOf(k), GuardOf(l))

\* strictly ascending: the blocks of a visit, the cases of a switch, the
\* strings of a case
AscendingBlocks(s) == \A i, j \in 1..Len(s) : i < j => BlockLess(s[i], s[j])

AscendingCases(s) == \A i, j \in 1..Len(s) : i < j => CaseLess(s[i], s[j])

AscendingStrings(s) == \A i, j \in 1..Len(s) : i < j => SeqLess(s[i], s[j])

\* C12: a second run on the same profile set gives the same text, however
\* the parents of a profile and the strings of a bucket are stored; the
\* functions are those of the profile at the reached position of
\* Bindings.profiles, in the order subpath, dpad path, dpad emulator, ext;
\* in each matcher the visits follow the parents in name order, the blocks
\* of a visit the order of the feature sets, the cases ascending length and
\* the strings of a case lexicographic order.
C12_OutputIndependentOfStoredOrder ==
    /\ pc = "rerun" => out = files.text
    /\ (pidx > 1 /\ pc # "reload") =>
          /\ SelectSeq(out, LAMBDA l : l.k = "func_begin")
                = [i \in 1..4 |->
                     [Ln("func_begin") EXCEPT
                        !.n = b.profiles[pidx - 1].validation_func_name,
                        !.t = <<"_subpath", "_dpad_path", "_dpad_emulator", "_ext">>[i]]]
          /\ \A dict_name \in DictNames :
                \A fn \in {Fn(dict_name)}, visits \in {Visits(Compiled.name, dict_name)} :
                   /\ [i \in 1..Len(visits) |-> Last(visits[i])]
                         = [i \in 1..Len(visits) |-> fn[CommentIndex(fn, i)].n]
                   /\ Len(SelectSeq(fn, LAMBDA l : l.k = "comment")) = Len(visits)
                   /\ \A k \in 1..Len(visits) :
                         AscendingBlocks(Segment(fn, k, Len(visits)))
                   /\ \A i \in 1..Len(fn) :
                         fn[i].k = "block" =>
                            /\ AscendingCases(fn[i].cases)
                            /\ \A c \in 1..Len(fn[i].cases) :
                                  AscendingStrings(fn[i].cases[c].paths)

\* the second run has compiled profile 1 from a load that stores its parents
\* in descending name order and a bucket of its strings in another order than
\* the first load, which stored the bucket unsorted
C12_Witness ==
    /\ pc = "rerun"
    /\ pidx = 4
    /\ out = files.text
    /\ Compiled.parent_profiles = <<3, 2>>
    /\ files.bindings.profiles[3].parent_profiles = <<2, 3>>
    /\ Compiled.subpaths_by_length[2] = <<<<1, 2>>, <<2, 1>>>>
    /\ files.bindings.profiles[3].subpaths_by_length[2] = <<<<2, 1>>, <<1, 2>>>>
    /\ Len(Visits(1, "subpaths_by_length")) = 4

\* C13: every emitted binding record carries at most
\* PATHS_PER_BINDING_TEMPLATE path entries, the terminating NULL counted, and
\* every emitted dpad record at most that many direction paths.
C13_PathsFitTheRecord ==
    \A o \in OutputNames :
        \A i \in 1..Len(files[o].lines) :
            files[o].lines[i].k \in {"binding_template", "dpad_emulation"} =>
                Len(files[o].lines[i].paths) <= PATHS_PER_BINDING_TEMPLATE

====
